---------------------------- MODULE Spec2Model ----------------------------
(***************************************************************************)
(* Model of the lead generation and enrichment pipeline:                   *)
(*   scraper.py        EnhancedWebsiteScraper                              *)
(*   email_finder.py   EmailFinder                                         *)
(*   analyzer.py       EnhancedContentAnalyzer                             *)
(*   lead_generator.py LeadGenerator                                       *)
(*   lead_processor.py LeadProcessor                                       *)
(*   main.py           the two entry points (upload, generate)             *)
(*                                                                         *)
(* The program keeps no state between calls: every operation is a          *)
(* function of its arguments and of what the outside world (web sites,     *)
(* the places API, the language model, the progress widget) answers.  The  *)
(* state of the model is the operation last performed (op), its arguments  *)
(* (input), what it returned and what it did to the outside world          *)
(* (output), and the position of the one loop that is modelled step by     *)
(* step, the batch loop of process_leads (batch).                          *)
(*                                                                         *)
(* Strings that the code takes apart (URLs) are sequences of tokens:       *)
(* <<"https://", "www.", "a.com", "/about">>.  Substring tests on texts    *)
(* and class attributes are tables over the finite vocabulary used.        *)
(***************************************************************************)
EXTENDS Integers, Sequences, FiniteSets, TLC

VARIABLES op, input, output, batch

vars == <<op, input, output, batch>>

(***************************************************************************)
(* Bounds of the model.                                                    *)
(***************************************************************************)
MaxElems == 2

MaxRows == 5

MaxPages == 2

MaxResults == 2

(***************************************************************************)
(* Generic helpers.                                                        *)
(***************************************************************************)
SeqsUpTo(S, n) == UNION {[1..k -> S] : k \in 0..n}

\* dict.get(key, default)
Get(d, k, default) == IF k \in DOMAIN d THEN d[k] ELSE default

\* the set of elements of a sequence
Range(s) == {s[i] : i \in DOMAIN s}

\* s[:n]
Take(s, n) == SubSeq(s, 1, IF Len(s) < n THEN Len(s) ELSE n)

(***************************************************************************)
(* Python values that are not strings.  None and NaN stand for None and    *)
(* for pandas' missing value; NotAString for a JSON number where a string  *)
(* was asked for.                                                          *)
(***************************************************************************)
None == "<None>"

NaN == "<NaN>"

NotAString == "<7>"

\* bool(value) of a string or None
Truthy(v) == v \notin {None, ""}

(***************************************************************************)
(* scraper.py                                                              *)
(***************************************************************************)
header_tags == {"h1", "h2", "h3", "h4", "h5", "h6"}

content_tags == {"p", "article", "section", "div"}

important_classes ==
    {"about", "contact", "team", "bio", "profile", "person", "founder", "ceo",
     "owner", "management", "leadership", "company", "mission", "vision",
     "values", "history"}

relevant_keywords ==
    [about   |-> {"about", "history", "story", "mission", "vision", "values"},
     team    |-> {"founder", "ceo", "owner", "team", "leadership",
                  "management"},
     contact |-> {"contact", "email", "phone", "address", "reach"}]

SectionTypes == {"general", "about", "team", "contact"}

\* The texts and class attributes that occur on the modelled pages.
Texts == {"", "Welcome", "Our story: mail owner@a.com", "Email  the Founder"}

ClassAttrs == {"", "Team-Bio"}

Tags == {"h2", "p"}

\* str.lower()
Lower(s) ==
    CASE s = "Team-Bio" -> "team-bio"
      [] s = "Welcome" -> "welcome"
      [] s = "Our story: mail owner@a.com" -> "our story: mail owner@a.com"
      [] s = "Jane Doe" -> "jane doe"
      [] s = "Jane Q Doe" -> "jane q doe"
      [] s = "Cher" -> "cher"
      [] s = "Email the Founder" -> "email the founder"
      [] s = "N/A" -> "n/a"
      [] OTHER -> s

\* the vocabulary words (class names, keywords) that are substrings of s
WordsIn(s) ==
    CASE s = "team-bio" -> {"team", "bio"}
      [] s = "our story: mail owner@a.com" -> {"story", "owner"}
      [] s = "email the founder" -> {"email", "founder"}
      [] OTHER -> {}

\* needle in hay
InStr(needle, hay) == needle \in WordsIn(hay)

\* str.strip() on a text
StripText(s) == IF s = " " THEN "" ELSE s

clean_text(text) ==
    IF text = "Email  the Founder" THEN "Email the Founder" ELSE StripText(text)

Elements == [tag : Tags, class : ClassAttrs, text : Texts]

\* A parsed page: its elements in document order.
Pages == SeqsUpTo(Elements, MaxElems)

get_element_context(element) == [tag |-> element.tag, classes |-> element.class]

\* The score process_element computes for an element with non-empty text.
relevance_score(element, section_type) ==
    LET element_classes == Lower(element.class)
        text_lower == Lower(clean_text(element.text))
        keywords == IF section_type \in DOMAIN relevant_keywords
                    THEN relevant_keywords[section_type] ELSE {}
    IN  2 * Cardinality({c \in important_classes : InStr(c, element_classes)})
        + Cardinality({k \in keywords : InStr(k, text_lower)})

\* the dict process_element returns for an element of the given score
Fragment(element, score) ==
    [text |-> clean_text(element.text),
     context |-> get_element_context(element),
     relevance_score |-> score,
     html |-> element]

\* the end of a process_element that keeps an element whatever its score
KeepRelevant_any_score(element, score) == <<Fragment(element, score)>>

\* the end of process_element: <<>> stands for None, <<fragment>> for a
\* kept fragment
KeepRelevant(element, score) ==
    IF score > 0 THEN <<Fragment(element, score)>> ELSE <<>>

process_element(element, section_type) ==
    IF StripText(element.text) = "" THEN <<>>
    ELSE KeepRelevant(element, relevance_score(element, section_type))

\* soup.find_all(tags): the elements with one of the tags, in document order
find_all(soup, tags) == SelectSeq(soup, LAMBDA e : e.tag \in tags)

\* processed['type'] = type; content_elements.append(processed)
Typed(processed, type) ==
    [i \in DOMAIN processed |->
        [text |-> processed[i].text, context |-> processed[i].context,
         relevance_score |-> processed[i].relevance_score,
         html |-> processed[i].html, type |-> type]]

RECURSIVE ProcessAll(_, _, _)
ProcessAll(elems, section_type, type) ==
    IF elems = <<>> THEN <<>>
    ELSE Typed(process_element(Head(elems), section_type), type)
         \o ProcessAll(Tail(elems), section_type, type)

\* Insert x into a sequence sorted by descending score, after every entry
\* whose score is at least x's: one step of a stable descending sort.
RECURSIVE InsertByScore(_, _)
InsertByScore(x, s) ==
    IF s = <<>> THEN <<x>>
    ELSE IF Head(s).relevance_score >= x.relevance_score
         THEN <<Head(s)>> \o InsertByScore(x, Tail(s))
         ELSE <<x>> \o s

\* sorted(content_elements, key=relevance_score, reverse=True)
RECURSIVE SortedByScore(_)
SortedByScore(s) ==
    IF s = <<>> THEN <<>>
    ELSE InsertByScore(s[Len(s)], SortedByScore(SubSeq(s, 1, Len(s) - 1)))

\* The fragments of a page in discovery order: headers first, then content.
content_elements(soup, section_type) ==
    ProcessAll(find_all(soup, header_tags), section_type, "header")
    \o ProcessAll(find_all(soup, content_tags), section_type, "content")

extract_content_with_context(soup, section_type) ==
    SortedByScore(content_elements(soup, section_type))

(***************************************************************************)
(* URLs.  A URL is a sequence of tokens: an optional scheme token, host    *)
(* tokens, and path tokens.                                                *)
(***************************************************************************)
Schemes == {"http://", "https://"}

PathTokens == {"/about", "/contact", "/team", "/blog"}

\* url.startswith(('http://', 'https://'))
startswith_scheme(url) == url # <<>> /\ url[1] \in Schemes

\* urlparse(url).netloc: the host, present only after a scheme's "//"
netloc(url) ==
    IF startswith_scheme(url)
    THEN SelectSeq(Tail(url), LAMBDA t : t \notin PathTokens)
    ELSE <<>>

\* f"{urlparse(url).scheme}://{urlparse(url).netloc}" of a URL with a scheme
base_url_of(url) == <<url[1]>> \o netloc(url)

\* urljoin(base_url, href) for an absolute href or a path from the root
urljoin(base_url, href) ==
    IF startswith_scheme(href) THEN href ELSE base_url \o href

\* the path of a link (the key under which the modelled site serves it)
PathOf(link) ==
    LET ps == SelectSeq(link, LAMBDA t : t \in PathTokens)
    IN  IF ps = <<>> THEN "/" ELSE ps[Len(ps)]

\* any(path in href.lower() for path in self.relevant_paths)
relevant_paths == {"/about", "/contact", "/team"}

is_relevant(href) == \E i \in DOMAIN href : href[i] \in relevant_paths

\* 'about' if 'about' in link.lower() else 'contact' if 'contact' in
\* link.lower() else 'team'
section_type_of(link) ==
    IF \E i \in DOMAIN link : link[i] = "/about" THEN "about"
    ELSE IF \E i \in DOMAIN link : link[i] = "/contact" THEN "contact"
    ELSE "team"

(***************************************************************************)
(* The outside world of one scrape: what the root request answers and what *)
(* each secondary path answers.  A response is an exception raised by      *)
(* requests.get or the parser, or an HTTP response carrying a page.        *)
(***************************************************************************)
Msgs == {"timed out", "connection refused"}

Exc(msg) == [kind |-> "exc", msg |-> msg]

Http(ok, elems, anchors) ==
    [kind |-> "http", ok |-> ok, elems |-> elems, anchors |-> anchors]

\* elements that occur on the pages of the modelled sites
SiteElements ==
    {e \in Elements : e.tag = "p" /\ e.text = "Our story: mail owner@a.com"}

SitePages == {<<>>} \cup {<<e>> : e \in SiteElements}

\* the anchors of a root page are any selection, in order, of these hrefs
AnchorPool ==
    << <<"/about">>, <<"https://", "b.com", "/team">>, <<"/contact">>,
       <<"/blog">>, <<"/team">>, <<"/about">> >>

RECURSIVE SubSeqs(_)
SubSeqs(s) ==
    IF s = <<>> THEN {<<>>}
    ELSE LET rest == SubSeqs(Tail(s))
         IN  rest \cup {<<Head(s)>> \o r : r \in rest}

AnchorLists == SubSeqs(AnchorPool)

SecPaths == {"/about", "/contact", "/team"}

RootResps(anchorLists) ==
    {Exc(m) : m \in Msgs}
    \cup {Http(TRUE, p, a) : p \in SitePages, a \in anchorLists}

SecResps ==
    {Exc("timed out"), Http(FALSE, <<>>, <<>>)}
    \cup {Http(TRUE, <<e>>, <<>>) : e \in SiteElements}

Webs == [root : RootResps(AnchorLists), sec : [SecPaths -> SecResps]]

\* what the site answers to a request for a secondary link
SecResponse(web, link) ==
    IF PathOf(link) \in SecPaths THEN web.sec[PathOf(link)]
    ELSE Http(FALSE, <<>>, <<>>)

Urls ==
    {<<>>, <<"N/A">>, <<"a.com">>, <<"https://", "a.com">>,
     <<"http://", "www.", "a.com">>}

(***************************************************************************)
(* scrape_website                                                          *)
(***************************************************************************)
\* the cap on secondary pages
MaxSecondaryPages == 3

\* time.sleep(1), in tenths of a time unit
SecondaryPageDelay == 10

GetEv(url) == [ev |-> "get", url |-> url]

SleepEv(t) == [ev |-> "sleep", t |-> t]

\* format_for_llm: the lines of the "### Main Content ###" block
RECURSIVE FormatElements(_)
FormatElements(elems) ==
    IF elems = <<>> THEN <<>>
    ELSE << "Element Type: " \o Head(elems).type, "Content:",
            Head(elems).text, "-----" >> \o FormatElements(Tail(elems))

format_for_llm(collected) ==
    <<"### Main Content ###">> \o FormatElements(collected)

\* internal links kept whatever their host
RECURSIVE InternalLinks_any_host(_, _)
InternalLinks_any_host(anchors, base_url) ==
    IF anchors = <<>> THEN <<>>
    ELSE IF is_relevant(Head(anchors))
    THEN <<urljoin(base_url, Head(anchors))>>
         \o InternalLinks_any_host(Tail(anchors), base_url)
    ELSE InternalLinks_any_host(Tail(anchors), base_url)

\* the hrefs of the root page kept as internal links, in document order
RECURSIVE InternalLinks(_, _)
InternalLinks(anchors, base_url) ==
    IF anchors = <<>> THEN <<>>
    ELSE LET href == Head(anchors)
             full_url == urljoin(base_url, href)
             rest == InternalLinks(Tail(anchors), base_url)
         IN  IF is_relevant(href) /\ netloc(full_url) = netloc(base_url)
             THEN <<full_url>> \o rest
             ELSE rest

\* one pass of the loop over internal_links[:3] for a link that is not in
\* scraped_urls: the request has been made (asked) and answered (resp)
ScrapeLink(link, resp, asked) ==
    IF resp.kind = "exc"
    THEN [asked EXCEPT !.warnings = @ \o <<resp.msg>>]
    ELSE IF ~resp.ok THEN asked
    ELSE [asked EXCEPT
            !.collected = @ \o extract_content_with_context(
                                 resp.elems, section_type_of(link)),
            !.discovered = @ \o content_elements(
                                 resp.elems, section_type_of(link)),
            !.scraped_urls = @ \cup {link},
            !.events = @ \o <<SleepEv(SecondaryPageDelay)>>]

\* the loop over internal_links[:3]; st carries collected_content,
\* scraped_urls and the requests and sleeps made
RECURSIVE ScrapeLinks(_, _, _)
ScrapeLinks(links, st, web) ==
    IF links = <<>> THEN st
    ELSE IF Head(links) \in st.scraped_urls
    THEN ScrapeLinks(Tail(links), st, web)
    ELSE ScrapeLinks(Tail(links),
            ScrapeLink(Head(links), SecResponse(web, Head(links)),
                       [st EXCEPT !.events = @ \o <<GetEv(Head(links))>>]),
            web)

\* not url or url == 'N/A'
invalid_url(url) == url = <<>> \/ url = <<"N/A">>

\* the default scheme taken to be plain HTTP
clean_url_plain_http(url) ==
    IF startswith_scheme(url) THEN url ELSE <<"http://">> \o url

\* url if url.startswith(('http://', 'https://')) else f'https://{url}'
clean_url(url) == IF startswith_scheme(url) THEN url ELSE <<"https://">> \o url

\* The outcome of the try block of scrape_website.  exc is the message of
\* an exception that left the block (None if none); result is the dict
\* returned; events are the requests and sleeps made; collected is the
\* fragment sequence handed to format_for_llm and discovered the same
\* fragments in the order the pages' elements were found.
ScrapeFailed(msg, events) ==
    [exc |-> msg, result |-> [success |-> FALSE], events |-> events,
     collected |-> <<>>, discovered |-> <<>>, warnings |-> <<>>]

\* the return of {'success': True, ...} after the loop over the links
ScrapeSucceeded(st) ==
    [exc |-> None,
     result |-> [success |-> TRUE,
                 content |-> format_for_llm(st.collected),
                 scraped_urls |-> st.scraped_urls],
     events |-> st.events, collected |-> st.collected,
     discovered |-> st.discovered, warnings |-> st.warnings]

\* scrape_website from the request of the root page u on
scrape_page(u, web) ==
    IF web.root.kind = "exc"
    THEN ScrapeFailed(web.root.msg, <<GetEv(u)>>)
    ELSE ScrapeSucceeded(
            ScrapeLinks(
                Take(InternalLinks(web.root.anchors, base_url_of(u)),
                     MaxSecondaryPages),
                [collected |->
                     extract_content_with_context(web.root.elems, "general"),
                 discovered |-> content_elements(web.root.elems, "general"),
                 scraped_urls |-> {u},
                 events |-> <<GetEv(u)>>,
                 warnings |-> <<>>],
                web))

\* the try block of scrape_website(url) against the site web
scrape_website_try(url, web) ==
    IF invalid_url(url)
    THEN [exc |-> None,
          result |-> [success |-> FALSE, error |-> "Invalid URL"],
          events |-> <<>>, collected |-> <<>>, discovered |-> <<>>,
          warnings |-> <<>>]
    ELSE scrape_page(clean_url(url), web)

\* "except Exception as e: return {'success': False, 'error': str(e)}";
\* raised tells whether the call raised to its caller
ScrapeExcept(t) ==
    [raised |-> FALSE,
     result |-> IF t.exc # None
                THEN [success |-> FALSE, error |-> t.exc] ELSE t.result,
     events |-> t.events, collected |-> t.collected,
     discovered |-> t.discovered, warnings |-> t.warnings]

\* no except clause: the exception leaves the call
ScrapeNoExcept(t) == [ScrapeExcept(t) EXCEPT !.raised = t.exc # None]

\* scrape_website without its "except Exception"
scrape_website_unguarded(url, web) ==
    ScrapeNoExcept(scrape_website_try(url, web))

\* scrape_website(url) against the site web
scrape_website(url, web) == ScrapeExcept(scrape_website_try(url, web))

(***************************************************************************)
(* email_finder.py                                                         *)
(***************************************************************************)
\* re.findall of the address patterns on one line of text, prefixes stripped
EmailsIn(line) ==
    IF line = "Our story: mail owner@a.com" THEN <<"owner@a.com">> ELSE <<>>

\* extract_emails_from_text: the distinct addresses of the text
RECURSIVE extract_emails_from_text(_)
extract_emails_from_text(text) ==
    IF text = <<>> THEN <<>>
    ELSE LET rest == extract_emails_from_text(Tail(text))
         IN  SelectSeq(EmailsIn(Head(text)), LAMBDA e : e \notin Range(rest))
             \o rest

\* owner_name.lower().split()
SplitName(name) ==
    CASE Lower(name) = "jane doe" -> <<"jane", "doe">>
      [] Lower(name) = "jane q doe" -> <<"jane", "q", "doe">>
      [] Lower(name) = "cher" -> <<"cher">>
      [] OTHER -> <<>>

\* s[0]
FirstChar(s) ==
    CASE s = "jane" -> "j"
      [] s = "doe" -> "d"
      [] s = "q" -> "q"
      [] s = "cher" -> "c"
      [] OTHER -> ""

\* generate_potential_emails taking the second part of the name as the last
generate_potential_emails_second_part(domain, owner_name) ==
    LET variations == << "info@" \o domain, "contact@" \o domain,
                         "hello@" \o domain, "support@" \o domain,
                         "sales@" \o domain >>
        name_parts == SplitName(owner_name)
        first == name_parts[1]
        last == name_parts[2]
    IN  IF Truthy(owner_name) /\ Len(name_parts) >= 2
        THEN variations \o
             << first \o "@" \o domain,
                last \o "@" \o domain,
                first \o "." \o last \o "@" \o domain,
                FirstChar(first) \o last \o "@" \o domain,
                first \o FirstChar(last) \o "@" \o domain >>
        ELSE variations

generate_potential_emails(domain, owner_name) ==
    LET variations == << "info@" \o domain, "contact@" \o domain,
                         "hello@" \o domain, "support@" \o domain,
                         "sales@" \o domain >>
        name_parts == SplitName(owner_name)
        first == name_parts[1]
        last == name_parts[Len(name_parts)]
    IN  IF Truthy(owner_name) /\ Len(name_parts) >= 2
        THEN variations \o
             << first \o "@" \o domain,
                last \o "@" \o domain,
                first \o "." \o last \o "@" \o domain,
                FirstChar(first) \o last \o "@" \o domain,
                first \o FirstChar(last) \o "@" \o domain >>
        ELSE variations

(***************************************************************************)
(* analyzer.py.  The language model answers with an exception, with text   *)
(* that is not JSON, or with a JSON object.                                *)
(***************************************************************************)
LlmJson(obj) == [kind |-> "json", obj |-> obj]

LlmResponses ==
    {Exc("rate limit exceeded"),
     [kind |-> "text", msg |-> "Expecting value: line 1 column 1 (char 0)"],
     LlmJson([owner_name |-> "Jane Doe", owner_title |-> "CEO",
              confidence |-> "high",
              confidence_reasoning |-> "named on the about page",
              key_facts |-> <<"family owned">>]),
     LlmJson([owner_name |-> "Cher", confidence_reasoning |-> "signature"]),
     LlmJson([owner_name |-> None, confidence |-> "low",
              confidence_reasoning |-> "no owner mentioned",
              key_facts |-> <<>>]),
     LlmJson([owner_name |-> NotAString, confidence |-> "medium"]),
     LlmJson([confidence |-> "low"])}

\* the dict returned when there is nothing to analyse or the analysis failed
DegradedAnalysis(reason) ==
    [owner_name |-> None, key_facts |-> <<>>, reasoning |-> reason]

analyze_content(website_data, llm) ==
    IF ~website_data.success
    THEN DegradedAnalysis(Get(website_data, "error", "Failed to fetch content"))
    ELSE IF llm.kind # "json"
    THEN DegradedAnalysis("Error in analysis: " \o llm.msg)
    ELSE [owner_name |-> Get(llm.obj, "owner_name", None),
          owner_title |-> Get(llm.obj, "owner_title", None),
          confidence |-> Get(llm.obj, "confidence", "low"),
          confidence_reasoning |-> Get(llm.obj, "confidence_reasoning", ""),
          key_facts |-> Get(llm.obj, "key_facts", <<>>)]

(***************************************************************************)
(* lead_processor.py                                                       *)
(***************************************************************************)
\* str(value).strip() of a string value
StripStr(s) ==
    CASE s = " Acme " -> "Acme"
      [] s = NotAString -> "7"
      [] OTHER -> s

\* _clean_string of a scalar field
_clean_string(value) == IF value \in {NaN, None} THEN "" ELSE StripStr(value)

\* a missing Website cell, and white space around a cell, as URL tokens
NaNUrl == <<NaN>>

RECURSIVE StripUrl(_)
StripUrl(u) ==
    IF u = <<>> THEN <<>>
    ELSE IF Head(u) = " " THEN StripUrl(Tail(u))
    ELSE IF u[Len(u)] = " " THEN StripUrl(SubSeq(u, 1, Len(u) - 1))
    ELSE u

\* _clean_string of the Website field
_clean_url(value) == IF value = NaNUrl THEN <<>> ELSE StripUrl(value)

\* website.lower()
LowerUrl(u) == [i \in DOMAIN u |-> Lower(u[i])]

\* "; ".join(str(item) for item in data if item)
RECURSIVE _format_list_to_string(_)
_format_list_to_string(data) ==
    IF data = <<>> THEN ""
    ELSE LET rest == _format_list_to_string(Tail(data))
         IN  IF ~Truthy(Head(data)) THEN rest
             ELSE IF SelectSeq(Tail(data), Truthy) = <<>> THEN Head(data)
             ELSE Head(data) \o "; " \o rest

\* the host tokens of a URL joined into one string
RECURSIVE JoinTokens(_)
JoinTokens(u) == IF u = <<>> THEN "" ELSE Head(u) \o JoinTokens(Tail(u))

\* urlparse(website).netloc.replace('www.', '')
domain_of(website) ==
    JoinTokens(SelectSeq(netloc(website), LAMBDA t : t # "www."))

_create_empty_result(lead, error) ==
    [company_name |-> _clean_string(Get(lead, "company_name", None)),
     full_address |-> _clean_string(Get(lead, "full_address", None)),
     Phone |-> _clean_string(Get(lead, "Phone", None)),
     Website |-> _clean_url(Get(lead, "Website", NaNUrl)),
     processed |-> FALSE,
     owner_name |-> "",
     owner_title |-> "",
     confidence |-> "none",
     confidence_reasoning |-> "",
     discovered_emails |-> "",
     potential_emails |-> "",
     key_facts |-> "",
     error |-> error]

\* The collaborators of one process_lead call: the site, the language
\* model, and a collaborator call that raises (fault.step, "none" if no
\* call does).
NoFault == [step |-> "none", msg |-> ""]

Steps == {"scrape_website", "extract_emails_from_text", "analyze_content",
          "generate_potential_emails"}

\* the check without the placeholder: only the empty website is skipped
no_website_empty_only(website) == website = <<>>

\* not website or website.lower() == 'n/a'
no_website(website) == website = <<>> \/ LowerUrl(website) = <<"n/a">>

\* an exception raised inside the try block, after the calls made so far
Raised(msg, calls) ==
    [exc |-> msg, record |-> [processed |-> FALSE], calls |-> calls]

Returned(record, calls) == [exc |-> None, record |-> record, calls |-> calls]

CallsToScrape == <<"scrape_website">>

CallsToExtract == CallsToScrape \o <<"extract_emails_from_text">>

CallsToAnalyze == CallsToExtract \o <<"analyze_content">>

CallsToGenerate == CallsToAnalyze \o <<"generate_potential_emails">>

\* the record returned for a processed lead
ProcessedRecord(lead, website, analysis, emails, potential_emails) ==
    [company_name |-> _clean_string(Get(lead, "company_name", None)),
     full_address |-> _clean_string(Get(lead, "full_address", None)),
     Phone |-> _clean_string(Get(lead, "Phone", None)),
     Website |-> website,
     processed |-> TRUE,
     owner_name |-> _clean_string(Get(analysis, "owner_name", None)),
     owner_title |-> _clean_string(Get(analysis, "owner_title", None)),
     confidence |-> _clean_string(Get(analysis, "confidence", "low")),
     confidence_reasoning |->
         _clean_string(Get(analysis, "confidence_reasoning", None)),
     discovered_emails |-> _format_list_to_string(emails),
     potential_emails |-> _format_list_to_string(potential_emails),
     key_facts |-> _format_list_to_string(Get(analysis, "key_facts", <<>>)),
     error |-> ""]

\* process_lead from "domain = ..." on: the candidate e-mails, if an owner
\* was found, and the record
process_analysis(lead, env, website, emails, analysis) ==
    IF ~Truthy(Get(analysis, "owner_name", None))
    THEN Returned(ProcessedRecord(lead, website, analysis, emails, <<>>),
                  CallsToAnalyze)
    ELSE IF env.fault.step = "generate_potential_emails"
    THEN Raised(env.fault.msg, CallsToGenerate)
    ELSE IF analysis.owner_name = NotAString
    THEN Raised("'int' object has no attribute 'lower'", CallsToGenerate)
    ELSE Returned(
            ProcessedRecord(lead, website, analysis, emails,
                generate_potential_emails(domain_of(website),
                                          analysis.owner_name)),
            CallsToGenerate)

\* process_lead from the e-mail extraction on: website_data is what
\* scrape_website returned
process_website_data(lead, env, website, website_data) ==
    IF "content" \notin DOMAIN website_data
    THEN Raised("'content'", CallsToScrape)
    ELSE IF env.fault.step = "extract_emails_from_text"
    THEN Raised(env.fault.msg, CallsToExtract)
    ELSE IF env.fault.step = "analyze_content"
    THEN Raised(env.fault.msg, CallsToAnalyze)
    ELSE process_analysis(lead, env, website,
            extract_emails_from_text(website_data.content),
            analyze_content(website_data, env.llm))

\* process_lead from the check of the cleaned website on
process_website(lead, env, website) ==
    IF no_website(website)
    THEN Returned(_create_empty_result(lead, ""), <<>>)
    ELSE IF env.fault.step = "scrape_website"
    THEN Raised(env.fault.msg, CallsToScrape)
    ELSE process_website_data(lead, env, website,
            scrape_website(website, env.web).result)

\* the try block of process_lead
process_lead_try(lead, env) ==
    process_website(lead, env, _clean_url(Get(lead, "Website", <<>>)))

\* "except Exception as e: return self._create_empty_result(lead, str(e))";
\* raised tells whether the call raised to its caller, exc is the message
\* of the exception raised inside the try block (None if none)
LeadExcept(lead, t) ==
    [raised |-> FALSE, exc |-> t.exc, calls |-> t.calls,
     record |-> IF t.exc # None THEN _create_empty_result(lead, t.exc)
                ELSE t.record]

\* an except clause that catches only KeyError
LeadExceptKeyError(lead, t) ==
    [LeadExcept(lead, t) EXCEPT !.raised = t.exc \notin {None, "'content'"}]

\* process_lead with an except clause that catches only KeyError
process_lead_keyerror_only(lead, env) ==
    LeadExceptKeyError(lead, process_lead_try(lead, env))

process_lead(lead, env) == LeadExcept(lead, process_lead_try(lead, env))

\* The leads and collaborators one process_lead call is tried on.
WebsiteValues ==
    {<<>>, NaNUrl, <<"N/A">>, <<"n/a">>, <<" ", "N/A", " ">>, <<"a.com">>,
     <<"https://", "a.com">>, <<"https://", "www.", "a.com">>}

Leads ==
    [company_name : {" Acme ", NaN}, Phone : {"555"}, Website : WebsiteValues]
    \cup [company_name : {"Bolt"}, Website : WebsiteValues]

LeadWebs ==
    [root : RootResps({<<>>, << <<"/about">> >>}),
     sec : {[p \in SecPaths |-> r] : r \in SecResps}]

Faults == {NoFault} \cup [step : Steps, msg : {"boom"}]

LeadEnvs == [web : LeadWebs, llm : LlmResponses, fault : Faults]

(***************************************************************************)
(* process_leads.  A DataFrame is the sequence of its rows, each with its  *)
(* index label idx; a CSV read or a list of dicts gives the labels         *)
(* 0, 1, 2, ... and drop_duplicates keeps the labels of the rows it keeps. *)
(***************************************************************************)
DataFrame(rows) == [i \in DOMAIN rows |-> [idx |-> i - 1, row |-> rows[i]]]

\* df.drop_duplicates(subset=['company_name', 'Website']): the first row of
\* every (company_name, Website) pair, under its own label
drop_duplicates(df) ==
    LET Key(r) == <<r.row.company_name, r.row.Website>>
        Kept == {i \in DOMAIN df :
                    \A j \in 1..(i - 1) : Key(df[j]) # Key(df[i])}
        RECURSIVE Pick(_)
        Pick(i) ==
            IF i > Len(df) THEN <<>>
            ELSE (IF i \in Kept THEN <<df[i]>> ELSE <<>>) \o Pick(i + 1)
    IN  Pick(1)

\* progress_bar.progress(value) of the fraction num/den: the widget raises
\* for a value outside [0.0, 1.0]
ProgressRaises(num, den) == num < 0 \/ num > den

\* pd.DataFrame(results)[columns]: selecting the columns of a frame built
\* from no rows raises, and the except clause returns the empty table
Table(results) == results

EmptyTable == <<>>

\* The state of a process_leads call about to handle row i of leads.
BatchLoop(raw, leads) ==
    [pc |-> "loop", raw |-> raw, leads |-> leads, i |-> 1, results |-> <<>>,
     progress |-> <<>>, processed |-> <<>>]

\* process_leads has returned table; failed tells that the except clause
\* was taken
BatchDone(b, table, failed) ==
    [pc |-> "done", raw |-> b.raw, leads |-> b.leads, results |-> b.results,
     progress |-> b.progress, processed |-> b.processed, table |-> table,
     failed |-> failed]

\* after the loop: the table of the results
AfterLoop(b) ==
    IF b.i <= Len(b.leads) THEN b
    ELSE IF b.results = <<>> THEN BatchDone(b, EmptyTable, TRUE)
    ELSE BatchDone(b, Table(b.results), FALSE)

\* the end of an iteration: result is what process_lead returned for row r
Progress(b, r, result) ==
    IF result.raised \/ ProgressRaises(r.idx + 1, Len(b.leads))
    THEN BatchDone([b EXCEPT !.results = @ \o <<result.record>>,
                             !.processed = @ \o <<r.row>>],
                   EmptyTable, TRUE)
    ELSE AfterLoop([b EXCEPT
                      !.results = @ \o <<result.record>>,
                      !.processed = @ \o <<r.row>>,
                      !.progress = @ \o << <<r.idx + 1, Len(b.leads)>> >>,
                      !.i = @ + 1])

\* one iteration of the loop over leads.iterrows(), with the end of the
\* call when it is the last one or when it raises
Iterate(b, env) ==
    Progress(b, b.leads[b.i], process_lead(b.leads[b.i].row, env))

\* The rows of an uploaded or generated table, and the collaborators of
\* the leads of a batch.
BatchLeads ==
    {[company_name |-> "Acme", Website |-> <<"https://", "a.com">>],
     [company_name |-> "Acme", Website |-> <<"N/A">>],
     [company_name |-> "Bolt", Website |-> <<"https://", "a.com">>]}

RawBatches == SeqsUpTo(BatchLeads, MaxRows)

BatchEnvs ==
    {[web |-> [root |-> Exc("timed out"),
               sec |-> [p \in SecPaths |-> Http(FALSE, <<>>, <<>>)]],
      llm |-> Exc("rate limit exceeded"), fault |-> NoFault],
     [web |-> [root |-> Http(TRUE, <<>>, <<>>),
               sec |-> [p \in SecPaths |-> Http(FALSE, <<>>, <<>>)]],
      llm |-> LlmJson([owner_name |-> "Jane Doe", confidence |-> "high"]),
      fault |-> NoFault]}

(***************************************************************************)
(* lead_generator.py.  The places API answers every request with an        *)
(* exception or with a JSON document carrying a status.                    *)
(***************************************************************************)
\* time.sleep(2) before a request with a page token, time.sleep(0.5) after
\* a details lookup, in tenths of a time unit
PageTokenDelay == 20

DetailsDelay == 5

Places == {"p1", "p2"}

\* details_data of a place
DetailsResponses(place) ==
    {Exc("connection refused"), [kind |-> "json", status |-> "NOT_FOUND"],
     [kind |-> "json", status |-> "OK",
      result |-> IF place = "p1"
                 THEN [name |-> "Acme", formatted_phone_number |-> "555",
                       website |-> <<"https://", "a.com">>]
                 ELSE [name |-> "Bolt"]]}

PlaceLists == {<<>>, <<"p1">>, <<"p1", "p2">>, <<"p2", "p1">>}

\* one page of the nearby search; next_page_token is None or a token
SearchResponses ==
    {Exc("timed out"), [kind |-> "json", status |-> "ZERO_RESULTS"]}
    \cup {[kind |-> "json", status |-> "OK", results |-> ps,
           next_page_token |-> t] : ps \in PlaceLists, t \in {None, "token"}}

GeocodeResponses ==
    {Exc("timed out"), [kind |-> "json", status |-> "ZERO_RESULTS"],
     [kind |-> "json", status |-> "OK"]}

\* the answer to the n-th nearby search: past the pages the provider
\* serves, the token is not valid
SearchResponse(env, n) ==
    IF n <= Len(env.pages) THEN env.pages[n]
    ELSE [kind |-> "json", status |-> "INVALID_REQUEST"]

\* the token the n-th page hands out
TokenOf(resp, n) ==
    IF resp.next_page_token = None THEN None
    ELSE resp.next_page_token \o ToString(n)

lead_of(result) ==
    [company_name |-> Get(result, "name", ""),
     full_address |-> Get(result, "formatted_address", ""),
     Phone |-> Get(result, "formatted_phone_number", "N/A"),
     Website |-> Get(result, "website", <<"N/A">>)]

\* a details lookup whose non-OK status ends the whole call
DetailsLookup_status_raises(d, asked) ==
    IF d.kind = "exc" THEN [asked EXCEPT !.exc = d.msg]
    ELSE IF d.status = "OK"
    THEN [asked EXCEPT
            !.leads = @ \o <<lead_of(d.result)>>,
            !.total_results = @ + 1,
            !.events = @ \o <<SleepEv(DetailsDelay)>>]
    ELSE [asked EXCEPT !.exc = d.status]

\* one pass of the loop over data['results']: the details request for
\* place has been made (asked) and answered with d
DetailsLookup(d, asked) ==
    IF d.kind = "exc" THEN [asked EXCEPT !.exc = d.msg]
    ELSE IF d.status = "OK"
    THEN [asked EXCEPT
            !.leads = @ \o <<lead_of(d.result)>>,
            !.total_results = @ + 1,
            !.events = @ \o <<SleepEv(DetailsDelay)>>]
    ELSE [asked EXCEPT !.events = @ \o <<SleepEv(DetailsDelay)>>]

\* the loop over data['results'] without the check of max_results
RECURSIVE PlacesLoop_uncapped(_, _, _, _)
PlacesLoop_uncapped(places, st, max_results, env) ==
    IF places = <<>> \/ st.exc # None
    THEN st
    ELSE PlacesLoop_uncapped(Tail(places),
            DetailsLookup(env.details[Head(places)],
                [st EXCEPT !.events =
                    @ \o <<[ev |-> "details", place |-> Head(places)]>>]),
            max_results, env)

\* the loop over data['results']; st.exc is the message of an exception
\* that ended it
RECURSIVE PlacesLoop(_, _, _, _)
PlacesLoop(places, st, max_results, env) ==
    IF places = <<>> \/ st.total_results >= max_results \/ st.exc # None
    THEN st
    ELSE PlacesLoop(Tail(places),
            DetailsLookup(env.details[Head(places)],
                [st EXCEPT !.events =
                    @ \o <<[ev |-> "details", place |-> Head(places)]>>]),
            max_results, env)

\* a nearby search request made without waiting for the token
SearchRequest_no_delay(st) ==
    [st EXCEPT !.events =
        @ \o <<[ev |-> "search", pagetoken |-> st.next_page_token]>>]

\* the nearby search request: after a sleep when it carries a page token
SearchRequest(st) ==
    [st EXCEPT !.events =
        @ \o (IF Truthy(st.next_page_token)
              THEN <<SleepEv(PageTokenDelay)>> ELSE <<>>)
          \o <<[ev |-> "search", pagetoken |-> st.next_page_token]>>]

\* the loop "while total_results < max_results", about to make the n-th
\* nearby search; st.done tells that the loop was left by break
RECURSIVE SearchLoop(_, _, _, _)

\* after the places of the n-th page: the next page token
NextPage(after, token, n, max_results, env) ==
    IF after.exc # None THEN after
    ELSE IF ~Truthy(token) THEN [after EXCEPT !.next_page_token = token]
    ELSE SearchLoop([after EXCEPT !.next_page_token = token],
                    n + 1, max_results, env)

\* the n-th nearby search has been made (asked) and answered with resp
SearchPage(resp, asked, n, max_results, env) ==
    IF resp.kind = "exc" THEN [asked EXCEPT !.exc = resp.msg]
    ELSE IF resp.status # "OK" THEN asked
    ELSE NextPage(PlacesLoop(resp.results, asked, max_results, env),
                  TokenOf(resp, n), n, max_results, env)

SearchLoop(st, n, max_results, env) ==
    IF st.total_results >= max_results THEN st
    ELSE SearchPage(SearchResponse(env, n), SearchRequest(st),
                    n, max_results, env)

\* the state of generate_leads before the geocoding request
NoLeads ==
    [leads |-> <<>>, next_page_token |-> None, total_results |-> 0,
     events |-> <<[ev |-> "geocode"]>>, exc |-> None]

\* the try block of generate_leads
generate_leads_try(location, max_results, env) ==
    IF env.geocode.kind = "exc"
    THEN [NoLeads EXCEPT !.exc = env.geocode.msg]
    ELSE IF env.geocode.status # "OK"
    THEN [NoLeads EXCEPT !.exc = "Could not geocode location: " \o location]
    ELSE SearchLoop(NoLeads, 1, max_results, env)

\* "return leads" and "except Exception as e: ... return []": leads is the
\* list returned, collected the leads list as it was when the call ended,
\* exc the message of the exception caught
GenerateExcept(st) ==
    [raised |-> FALSE,
     leads |-> IF st.exc # None THEN <<>> ELSE st.leads,
     collected |-> st.leads, exc |-> st.exc, events |-> st.events]

generate_leads(location, max_results, env) ==
    GenerateExcept(generate_leads_try(location, max_results, env))

PlacesEnvs ==
    [geocode : GeocodeResponses \ {[kind |-> "json", status |-> "OK"]},
     pages : {<<>>},
     details : {[p \in Places |-> [kind |-> "json", status |-> "NOT_FOUND"]]}]
    \cup
    [geocode : {[kind |-> "json", status |-> "OK"]},
     pages : [1..MaxPages -> SearchResponses],
     details : {d \in [Places -> UNION {DetailsResponses(p) : p \in Places}] :
                   \A p \in Places : d[p] \in DetailsResponses(p)}]

(***************************************************************************)
(* The state machine.                                                      *)
(***************************************************************************)
NoBatch == [pc |-> "none"]

\* input and output while no call is under way
Nothing == [idle |-> TRUE]

\* the arguments and the outcome of the call op
arg == input[op]

ret == output[op]

Init ==
    /\ op = "idle"
    /\ input = Nothing
    /\ output = Nothing
    /\ batch = NoBatch

\* one page handed to the extractor
ExtractContent ==
    /\ op = "idle"
    /\ \E soup \in Pages, section_type \in SectionTypes :
        /\ op' = "extract_content_with_context"
        /\ input' = [extract_content_with_context |->
                        [soup |-> soup, section_type |-> section_type]]
        /\ output' = [extract_content_with_context |->
                        extract_content_with_context(soup, section_type)]
    /\ UNCHANGED batch

\* one call of scrape_website
ScrapeWebsite ==
    /\ op = "idle"
    /\ \E url \in Urls, web \in Webs :
        /\ op' = "scrape_website"
        /\ input' = [scrape_website |-> [url |-> url, web |-> web]]
        /\ output' = [scrape_website |-> scrape_website(url, web)]
    /\ UNCHANGED batch

\* the scrape results handed to the analyzer
WebsiteData ==
    {[success |-> FALSE, error |-> "Invalid URL"],
     [success |-> FALSE, error |-> "timed out"],
     [success |-> FALSE],
     [success |-> TRUE, content |-> <<"### Main Content ###">>]}

\* one call of analyze_content
AnalyzeContent ==
    /\ op = "idle"
    /\ \E website_data \in WebsiteData, llm \in LlmResponses :
        /\ op' = "analyze_content"
        /\ input' = [analyze_content |->
                        [website_data |-> website_data, llm |-> llm]]
        /\ output' = [analyze_content |-> analyze_content(website_data, llm)]
    /\ UNCHANGED batch

\* the domains and owner names the candidate generator is called with
Domains == {"", "a.com", "example.com"}

OwnerNames == {None, "", "Cher", "Jane Doe", "Jane Q Doe"}

\* one call of generate_potential_emails
GeneratePotentialEmails ==
    /\ op = "idle"
    /\ \E domain \in Domains, owner_name \in OwnerNames :
        /\ op' = "generate_potential_emails"
        /\ input' = [generate_potential_emails |->
                        [domain |-> domain, owner_name |-> owner_name]]
        /\ output' = [generate_potential_emails |->
                        generate_potential_emails(domain, owner_name)]
    /\ UNCHANGED batch

\* one call of process_lead
ProcessLead ==
    /\ op = "idle"
    /\ \E lead \in Leads, env \in LeadEnvs :
        /\ op' = "process_lead"
        /\ input' = [process_lead |-> [lead |-> lead, env |-> env]]
        /\ output' = [process_lead |-> process_lead(lead, env)]
    /\ UNCHANGED batch

\* one call of generate_leads
GenerateLeads ==
    /\ op = "idle"
    /\ \E max_results \in 1..MaxResults, env \in PlacesEnvs :
        /\ op' = "generate_leads"
        /\ input' = [generate_leads |->
                        [location |-> "Boston, MA",
                         max_results |-> max_results, env |-> env]]
        /\ output' = [generate_leads |->
                        generate_leads("Boston, MA", max_results, env)]
    /\ UNCHANGED batch

\* main: the rows of the uploaded file or of the generated leads are
\* deduplicated and handed to process_leads
StartBatch ==
    /\ op = "idle"
    /\ \E rows \in RawBatches :
        /\ op' = "process_leads"
        /\ input' = [process_leads |-> [rows |-> rows]]
        /\ batch' = AfterLoop(BatchLoop(DataFrame(rows),
                                        drop_duplicates(DataFrame(rows))))
    /\ output' = [process_leads |-> TRUE]

\* process_leads handles the next row
ProcessNextLead ==
    /\ batch.pc = "loop"
    /\ \E env \in BatchEnvs : batch' = Iterate(batch, env)
    /\ UNCHANGED <<op, input, output>>

\* the call has returned and the script waits for the next interaction
Rerun ==
    /\ op # "idle"
    /\ batch.pc \in {"none", "done"}
    /\ op' = "idle"
    /\ input' = Nothing
    /\ output' = Nothing
    /\ batch' = NoBatch

Next ==
    \/ ExtractContent
    \/ ScrapeWebsite
    \/ AnalyzeContent
    \/ GeneratePotentialEmails
    \/ ProcessLead
    \/ GenerateLeads
    \/ StartBatch
    \/ ProcessNextLead
    \/ Rerun

Spec == Init /\ [][Next]_vars

(***************************************************************************)
(* Properties.                                                             *)
(***************************************************************************)
NonIncreasing(frags) ==
    \A i \in 1..(Len(frags) - 1) :
        frags[i].relevance_score >= frags[i + 1].relevance_score

\* fragments of equal score stand in the order in which they were found
TiesInDiscoveryOrder(frags, found) ==
    \A n \in {f.relevance_score : f \in Range(found)} :
        SelectSeq(frags, LAMBDA f : f.relevance_score = n)
        = SelectSeq(found, LAMBDA f : f.relevance_score = n)

\* C1: for every successful fetch, the fragment sequence handed to
\* formatting (root page and secondary pages together) is non-increasing in
\* relevance score, fragments of equal score in discovery order.
C1_FormattedFragmentsSorted ==
    (op = "scrape_website" /\ ret.result.success)
    => /\ NonIncreasing(ret.collected)
       /\ TiesInDiscoveryOrder(ret.collected, ret.discovered)

EnrichmentFields ==
    {"owner_name", "owner_title", "confidence_reasoning", "discovered_emails",
     "potential_emails", "key_facts"}

EnrichmentBlank(record) == \A f \in EnrichmentFields : record[f] = ""

\* C2: process_lead never raises; an exception raised by a step of the
\* pipeline yields a record with processed = FALSE, every enrichment field
\* blank and error equal to the exception's message; no record has
\* processed = FALSE and an enrichment field filled.
C2_ProcessLeadNeverRaises ==
    op = "process_lead"
    => /\ ~ret.raised
       /\ ret.exc # None
          => /\ ret.record.processed = FALSE
             /\ EnrichmentBlank(ret.record)
             /\ ret.record.error = ret.exc
       /\ (arg.env.fault.step = "scrape_website"
           /\ arg.lead.Website \in {<<"a.com">>, <<"https://", "a.com">>})
          => /\ ret.record.processed = FALSE
             /\ ret.record.error = arg.env.fault.msg
       /\ ret.record.processed = FALSE => EnrichmentBlank(ret.record)

\* C2 witness: the candidate generator raised after the fetch, the e-mail
\* extraction and the analysis had succeeded, and an unprocessed record
\* carrying the message came back.
C2_Witness ==
    /\ op = "process_lead"
    /\ arg.env.fault.step = "generate_potential_emails"
    /\ ret.calls = <<"scrape_website", "extract_emails_from_text",
                    "analyze_content", "generate_potential_emails">>
    /\ ret.exc = "boom"
    /\ ret.record.processed = FALSE
    /\ ret.record.error = "boom"

\* the lead's Website is empty or the placeholder "N/A"
PlaceholderWebsite(lead) == lead.Website \in {<<>>, <<"N/A">>}

\* C3 (as stated): a lead whose Website is empty or "N/A" yields a record
\* with processed = FALSE, error = "" and all enrichment fields, confidence
\* among them, empty, and no fetch, extraction or analysis call is made.
C3_PlaceholderAllEmpty ==
    (op = "process_lead" /\ PlaceholderWebsite(arg.lead))
    => /\ ret.record.processed = FALSE
       /\ ret.record.error = ""
       /\ EnrichmentBlank(ret.record)
       /\ ret.record.confidence = ""
       /\ ret.calls = <<>>

\* C3 (amended): a lead whose Website is empty or "N/A" yields a record
\* with processed = FALSE, error = "", confidence = "none" and every other
\* enrichment field empty, and no fetch, extraction or analysis call is
\* made.
C3_PlaceholderUnprocessed ==
    (op = "process_lead" /\ PlaceholderWebsite(arg.lead))
    => /\ ret.record.processed = FALSE
       /\ ret.record.error = ""
       /\ EnrichmentBlank(ret.record)
       /\ ret.record.confidence = "none"
       /\ ret.calls = <<>>

\* C3 witness: a lead with Website "N/A" and its other fields filled came
\* back unprocessed while the site would have answered and a collaborator
\* would have raised.
C3_Witness ==
    /\ op = "process_lead"
    /\ arg.lead.Website = <<"N/A">>
    /\ arg.lead.company_name = " Acme "
    /\ arg.env.web.root.kind = "http"
    /\ arg.env.fault.step = "scrape_website"
    /\ ret.record.company_name = "Acme"
    /\ ret.record.processed = FALSE
    /\ ret.record.confidence = "none"

\* C4: generate_leads never raises, and when an exception occurs after k
\* leads have been collected it returns exactly those k leads.
C4_PartialLeadsReturned ==
    op = "generate_leads"
    => /\ ~ret.raised
       /\ ret.exc # None => ret.leads = ret.collected

\* C5: when a failure occurs in the batch loop after some leads have been
\* processed, the returned table still contains their rows.
C5_PartialBatchResults ==
    (batch.pc = "done" /\ batch.failed)
    => \A i \in DOMAIN batch.results :
          \E j \in DOMAIN batch.table : batch.table[j] = batch.results[i]

\* C6: for a batch of n leads, process_lead is called once per lead in
\* input order and the table returned has n rows, row i for lead i.
C6_OneRowPerLeadInOrder ==
    batch.pc = "done"
    => /\ batch.processed = [i \in DOMAIN batch.leads |-> batch.leads[i].row]
       /\ Len(batch.table) = Len(batch.leads)
       /\ \A i \in DOMAIN batch.table :
            /\ batch.table[i].company_name = batch.leads[i].row.company_name
            /\ batch.table[i].Website = batch.leads[i].row.Website

\* the (company_name, Website) pairs of a table
Pairs(df) == {<<df[i].row.company_name, df[i].row.Website>> : i \in DOMAIN df}

\* C7: a batch with duplicate (company_name, Website) pairs is reduced to
\* its unique pairs before processing, and the number of process_lead calls
\* equals the number of unique pairs.
C7_ProcessedCountIsUniqueCount ==
    batch.pc = "done"
    => /\ Pairs(batch.leads) = Pairs(batch.raw)
       /\ Len(batch.leads) = Cardinality(Pairs(batch.raw))
       /\ Len(batch.processed) = Cardinality(Pairs(batch.raw))

\* the url is one that scrape_website requests
RequestedUrl(url) == url \notin {<<>>, <<"N/A">>}

\* C8: scrape_website never raises; an exception while fetching or parsing
\* the root page yields success = FALSE and error = the exception's message.
C8_FetchNeverRaises ==
    op = "scrape_website"
    => /\ ~ret.raised
       /\ (RequestedUrl(arg.url) /\ arg.web.root.kind = "exc")
          => ret.result = [success |-> FALSE, error |-> arg.web.root.msg]

\* C8 witness: the root request of a valid url raised and the failure
\* result came back.
C8_Witness ==
    /\ op = "scrape_website"
    /\ arg.url = <<"a.com">>
    /\ arg.web.root = Exc("connection refused")
    /\ ret.result = [success |-> FALSE, error |-> "connection refused"]

\* C9: for url "" or "N/A" scrape_website returns success = FALSE with
\* error "Invalid URL" and issues no request; a url without a scheme is
\* requested with https:// prepended.
C9_InvalidUrlAndDefaultScheme ==
    op = "scrape_website"
    => /\ ~RequestedUrl(arg.url)
          => /\ ret.result = [success |-> FALSE, error |-> "Invalid URL"]
             /\ ret.events = <<>>
       /\ (RequestedUrl(arg.url) /\ arg.url[1] \notin {"http://", "https://"})
          => ret.events[1] = GetEv(<<"https://">> \o arg.url)

\* C9 witness: a url without a scheme was fetched, and an "N/A" url was
\* refused (two calls; the state is the one of the fetched url).
C9_Witness ==
    /\ op = "scrape_website"
    /\ arg.url = <<"a.com">>
    /\ ret.result.success
    /\ ret.events[1] = GetEv(<<"https://", "a.com">>)

\* the message a degraded analysis is to carry
FailureMessage(website_data, llm) ==
    IF ~website_data.success THEN website_data.error ELSE llm.msg

\* C10: analyze_content never raises; on a failed fetch, a failed model
\* call or an unparsable answer it returns owner_name None, key_facts empty
\* and, in the confidence_reasoning field the orchestrator reads, the fetch
\* error or the failure's message.
C10_DegradedAnalysisCarriesError ==
    (/\ op = "analyze_content"
     /\ \/ (~arg.website_data.success /\ "error" \in DOMAIN arg.website_data)
        \/ (arg.website_data.success /\ arg.llm.kind # "json"))
    => /\ ret.owner_name = None
       /\ ret.key_facts = <<>>
       /\ Get(ret, "confidence_reasoning", None)
            = FailureMessage(arg.website_data, arg.llm)

\* the host of the site the fetcher requests for website, with only a
\* leading "www." removed
HostDomain(website) ==
    LET host == netloc(clean_url(website))
    IN  JoinTokens(IF host # <<>> /\ host[1] = "www." THEN Tail(host)
                   ELSE host)

\* C11: in process_lead, candidate e-mails are generated if and only if the
\* analysis found a non-empty owner name, and they are generated for the
\* host of the lead's site with only a leading "www." removed, for every
\* website the fetcher accepts (one given without a scheme included).
C11_CandidatesForSiteHost ==
    (op = "process_lead" /\ ret.record.processed)
    => /\ "generate_potential_emails" \in Range(ret.calls)
          <=> ret.record.owner_name # ""
       /\ ret.record.owner_name # ""
          => ret.record.potential_emails
             = _format_list_to_string(
                  generate_potential_emails(HostDomain(arg.lead.Website),
                                            ret.record.owner_name))

\* the five generic addresses at domain d
GenericAddresses(d) ==
    <<"info@" \o d, "contact@" \o d, "hello@" \o d, "support@" \o d,
      "sales@" \o d>>

\* the five addresses built from the first and the last part of a name
PersonalAddresses(d, first, last) ==
    <<first \o "@" \o d, last \o "@" \o d, first \o "." \o last \o "@" \o d,
      FirstChar(first) \o last \o "@" \o d,
      first \o FirstChar(last) \o "@" \o d>>

\* the lowercased parts of a name, none for an absent name
NameParts(name) == IF name = None THEN <<>> ELSE SplitName(name)

\* C12: for every domain d, generate_potential_emails(d, name) returns
\* exactly info@d, contact@d, hello@d, support@d, sales@d in that order when
\* name is absent or has fewer than two parts, and those five followed by
\* first@d, last@d, first.last@d, <first initial>last@d,
\* first<last initial>@d when name has at least two parts, first and last
\* being its lowercased first and last parts.
C12_CandidateAddresses ==
    op = "generate_potential_emails"
    => ret = IF Len(NameParts(arg.owner_name)) < 2
             THEN GenericAddresses(arg.domain)
             ELSE GenericAddresses(arg.domain)
                  \o PersonalAddresses(arg.domain,
                        NameParts(arg.owner_name)[1],
                        NameParts(arg.owner_name)[
                            Len(NameParts(arg.owner_name))])

\* C12 witness: the ten addresses for "Jane Doe" at example.com.
C12_Witness ==
    /\ op = "generate_potential_emails"
    /\ arg.domain = "example.com"
    /\ arg.owner_name = "Jane Doe"
    /\ ret = <<"info@example.com", "contact@example.com",
               "hello@example.com", "support@example.com",
               "sales@example.com", "jane@example.com", "doe@example.com",
               "jane.doe@example.com", "jdoe@example.com",
               "janed@example.com">>

\* the URLs requested by a fetch, in order; the first is the root page
RequestedUrls(events) ==
    LET gets == SelectSeq(events, LAMBDA e : e.ev = "get")
    IN  [i \in DOMAIN gets |-> gets[i].url]

\* the fragments of the secondary pages requested, in order of request: a
\* page that failed (exception or non-OK response) gives none
RECURSIVE SecondaryFragments(_, _)
SecondaryFragments(links, web) ==
    IF links = <<>> THEN <<>>
    ELSE (IF SecResponse(web, Head(links)).kind = "http"
             /\ SecResponse(web, Head(links)).ok
          THEN extract_content_with_context(
                  SecResponse(web, Head(links)).elems,
                  section_type_of(Head(links)))
          ELSE <<>>)
         \o SecondaryFragments(Tail(links), web)

C14_NoZeroScoreFragments ==
    /\ op = "extract_content_with_context"
       => /\ \A f \in Range(ret) :
               /\ f.relevance_score >= 1
               /\ f.relevance_score
                    = relevance_score(f.html, arg.section_type)
          /\ \A e \in Range(arg.soup) :
               relevance_score(e, arg.section_type) = 0
               => \A f \in Range(ret) : f.html # e
    /\ op = "scrape_website"
       => \A f \in Range(ret.collected) : f.relevance_score >= 1

\* C14 witness: a page with an element scoring 0 and an element scoring
\* more was processed, and only the second one was extracted.
C14_Witness ==
    /\ op = "extract_content_with_context"
    /\ Len(arg.soup) = 2
    /\ \E e \in Range(arg.soup) :
         /\ StripText(e.text) # ""
         /\ relevance_score(e, arg.section_type) = 0
    /\ Len(ret) = 1

\* no request of the call raises: every answer is a JSON document
NoExceptions(env) ==
    /\ env.geocode.kind = "json"
    /\ \A n \in DOMAIN env.pages : env.pages[n].kind = "json"
    /\ \A p \in DOMAIN env.details : env.details[p].kind = "json"

\* the leads of the places of one page whose details lookup answers OK
RECURSIVE LeadsOfPlaces(_, _)
LeadsOfPlaces(places, details) ==
    IF places = <<>> THEN <<>>
    ELSE (IF details[Head(places)].status = "OK"
          THEN <<lead_of(details[Head(places)].result)>> ELSE <<>>)
         \o LeadsOfPlaces(Tail(places), details)

\* the leads of page n and of the pages after it, up to the first page
\* that is not OK or hands out no token
RECURSIVE LeadsFromPage(_, _)
LeadsFromPage(env, n) ==
    IF SearchResponse(env, n).status # "OK" THEN <<>>
    ELSE LeadsOfPlaces(SearchResponse(env, n).results, env.details)
         \o (IF SearchResponse(env, n).next_page_token = None THEN <<>>
             ELSE LeadsFromPage(env, n + 1))

\* the nearby searches made, in order
SearchEvents(events) == SelectSeq(events, LAMBDA e : e.ev = "search")

\* C15: in generate_leads a non-OK status of one place's details lookup
\* skips only that place (the other places of the page and the later pages
\* still give their leads, up to max_results), and a non-OK status of a
\* nearby search ends paging (it is the last search made) while the leads
\* of the earlier pages are returned.
C15_NonOkStatusSkipsOrEndsPaging ==
    (/\ op = "generate_leads"
     /\ NoExceptions(arg.env)
     /\ arg.env.geocode.status = "OK")
    => /\ ret.exc = None
       /\ ret.leads = Take(LeadsFromPage(arg.env, 1), arg.max_results)
       /\ \A n \in 1..Len(SearchEvents(ret.events)) :
            SearchResponse(arg.env, n).status # "OK"
            => n = Len(SearchEvents(ret.events))

\* C15 witness: on the first page the details of the first place were not
\* OK and the second place gave a lead; the second page was requested, was
\* not OK, and the lead of the first page was returned.
C15_Witness ==
    /\ op = "generate_leads"
    /\ NoExceptions(arg.env)
    /\ arg.env.geocode.status = "OK"
    /\ arg.env.pages[1].status = "OK"
    /\ Len(arg.env.pages[1].results) = 2
    /\ arg.env.details[arg.env.pages[1].results[1]].status # "OK"
    /\ arg.env.details[arg.env.pages[1].results[2]].status = "OK"
    /\ Len(SearchEvents(ret.events)) = 2
    /\ SearchResponse(arg.env, 2).status # "OK"
    /\ Len(ret.leads) = 1

\* C16: within one fetch, between any two consecutive secondary-page
\* requests there is a delay of 1 time unit, whatever the outcome of the
\* earlier request (the first request of a fetch is the one of the root
\* page).
C16_DelayBetweenSecondaryRequests ==
    op = "scrape_website"
    => \A i \in 2..(Len(ret.events) - 1) :
         (ret.events[i].ev = "get" /\ \E j \in (i + 1)..Len(ret.events) :
                                         ret.events[j].ev = "get")
         => ret.events[i + 1] = SleepEv(SecondaryPageDelay)

\* the positions in events of the events of kind ev, in order
Positions(events, ev) ==
    SelectSeq([i \in DOMAIN events |-> i], LAMBDA i : events[i].ev = ev)

\* C17: in generate_leads every nearby search after the first carries the
\* page token of the previous page and comes right after a delay of 2 time
\* units, the first search carries no token and has no delay before it,
\* and every details lookup is followed by a delay of 0.5 units before the
\* next details lookup.
C17_PagingAndDetailsDelays ==
    op = "generate_leads"
    => /\ \A k \in DOMAIN Positions(ret.events, "search") :
            IF k = 1
            THEN /\ ret.events[Positions(ret.events, "search")[k]].pagetoken
                      = None
                 /\ ret.events[Positions(ret.events, "search")[k] - 1].ev
                      = "geocode"
            ELSE /\ ret.events[Positions(ret.events, "search")[k]].pagetoken
                      = TokenOf(SearchResponse(arg.env, k - 1), k - 1)
                 /\ ret.events[Positions(ret.events, "search")[k]].pagetoken
                      # None
                 /\ ret.events[Positions(ret.events, "search")[k] - 1]
                      = SleepEv(PageTokenDelay)
       /\ \A k \in 1..(Len(Positions(ret.events, "details")) - 1) :
            ret.events[Positions(ret.events, "details")[k] + 1]
              = SleepEv(DetailsDelay)
       /\ PageTokenDelay = 20 /\ DetailsDelay = 5   \* tenths of a unit

\* C17 witness: two pages were searched and two details lookups were made
\* on the first one.
C17_Witness ==
    /\ op = "generate_leads"
    /\ Len(Positions(ret.events, "search")) = 2
    /\ Len(Positions(ret.events, "details")) >= 2
    /\ Positions(ret.events, "details")[2]
         < Positions(ret.events, "search")[2]

\* the number of leads collected before the i-th event: the details
\* lookups made before it that answered OK
CollectedBefore(events, i, env) ==
    Cardinality({j \in 1..(i - 1) :
                    /\ events[j].ev = "details"
                    /\ env.details[events[j].place].kind = "json"
                    /\ env.details[events[j].place].status = "OK"})

\* C18: generate_leads never returns more than max_results leads, makes no
\* nearby search and no details lookup once max_results leads have been
\* collected, and stops paging at the first page that carries no next-page
\* token; with a provider that serves finitely many pages the call ends,
\* after at most one search more than there are pages.
C18_BoundedByMaxResults ==
    op = "generate_leads"
    => /\ Len(ret.leads) <= arg.max_results
       /\ Len(ret.collected) <= arg.max_results
       /\ \A i \in DOMAIN ret.events :
            ret.events[i].ev \in {"search", "details"}
            => CollectedBefore(ret.events, i, arg.env) < arg.max_results
       /\ \A n \in 1..Len(SearchEvents(ret.events)) :
            (/\ SearchResponse(arg.env, n).kind = "json"
             /\ SearchResponse(arg.env, n).status = "OK"
             /\ SearchResponse(arg.env, n).next_page_token = None)
            => n = Len(SearchEvents(ret.events))
       /\ Len(SearchEvents(ret.events)) <= Len(arg.env.pages) + 1

\* C18 witness: the first page lists two places that both answer OK and
\* hands out a token, max_results is 1: one lead is returned after one
\* search and one details lookup.
C18_Witness ==
    /\ op = "generate_leads"
    /\ arg.max_results = 1
    /\ arg.env.geocode = [kind |-> "json", status |-> "OK"]
    /\ arg.env.pages[1].kind = "json"
    /\ arg.env.pages[1].status = "OK"
    /\ Len(arg.env.pages[1].results) = 2
    /\ arg.env.pages[1].next_page_token # None
    /\ \A p \in Places : /\ arg.env.details[p].kind = "json"
                         /\ arg.env.details[p].status = "OK"
    /\ Len(ret.leads) = 1
    /\ Len(SearchEvents(ret.events)) = 1
    /\ Len(SelectSeq(ret.events, LAMBDA e : e.ev = "details")) = 1

\* C19: in process_lead, when the site fetch returns a failure result
\* (success = FALSE with the message E of the failure), the result is still
\* handed to analyze_content and the record returned carries E in its error
\* or its confidence_reasoning field.
C19_FetchFailureReachesRecord ==
    (/\ op = "process_lead"
     /\ arg.lead.Website \in {<<"a.com">>, <<"https://", "a.com">>,
                              <<"https://", "www.", "a.com">>}
     /\ arg.env.fault = NoFault
     /\ arg.env.web.root.kind = "exc")
    => /\ "analyze_content" \in Range(ret.calls)
       /\ \/ ret.record.error = arg.env.web.root.msg
          \/ ret.record.confidence_reasoning = arg.env.web.root.msg

\* C20: in process_leads over n leads, the progress fraction reported after
\* the k-th processed lead is k/n (hence non-decreasing and at most 1), one
\* is reported after every processed lead, and the last one reported is 1;
\* also for a batch from which duplicate rows were removed beforehand.
C20_ProgressIsProcessedOverTotal ==
    batch.pc \in {"loop", "done"}
    => /\ Len(batch.progress) = Len(batch.processed)
       /\ \A k \in DOMAIN batch.progress :
            batch.progress[k] = <<k, Len(batch.leads)>>
       /\ batch.pc = "done" => Len(batch.progress) = Len(batch.leads)

=============================================================================
